---- MODULE Spec2Model ----
(***************************************************************************)
(* A model of the `nls` directory lister (src/src/bin/nls.rs).             *)
(*                                                                         *)
(* The state is the command line (LsCli's flags), the filesystem the       *)
(* command looks at, the record set LsCli::files, the status bitmask, the  *)
(* text printed so far and the position of LsCli::execute.  The recursion  *)
(* of show_as_tree_recursively is kept as an explicit call stack.          *)
(*                                                                         *)
(* Strings are TLA+ strings; a printed line is kept as a record            *)
(* [tag, indent, text, color, node]: `indent` spaces followed by `text`.   *)
(* `node` is a ghost field naming the filesystem entry the line is about.  *)
(***************************************************************************)
EXTENDS Integers, Sequences, FiniteSets, TLC

VARIABLES
    cli,              \* the parsed flags of LsCli (long, all, ..., depth)
    path,             \* LsCli::path: the target entry, or NoPath when it does not exist
    fs,               \* the filesystem: entries, their parents and their metadata
    build,            \* the build profile as far as the run has shown it: "unobserved" until
                      \* the first u8 overflow, then "debug" (it panicked) or "release" (it wrapped)
    status,           \* LsCli::status
    files,            \* LsCli::files
    pc,               \* the position of execute
    stack,            \* pending calls of show_as_tree_recursively, next call first
    output            \* what has been printed to standard output, in order

vars == <<cli, path, fs, build, status, files, pc, stack, output>>

----------------------------------------------------------------------------
(* Bounds of the model *)

\* entries below the target in the small filesystems of Init
MaxNodes == 2
\* entries of the directory chain used to reach deep tree levels
MaxChain == 258
\* entries of the flat directories of InitSort
MaxFiles == 3

(* Program constants *)

\* u8: the width of LsCli::depth and of the depth parameter of the tree walk
U8Max == 255
\* spaces of indentation per tree level
IndentStep == 5
\* width of a name column of show_names
NameWidth == 20
\* the divisor and threshold of human_readable_size
Kilo == 1024

NoPath == -1

----------------------------------------------------------------------------
(* Strings *)

\* the bytes the model's strings are made of, in ascending byte order
Alphabet == " -.0123456789:?BGKMPTUabcdeghiklnorstuwxy"

RECURSIVE CharIndex(_, _)
CharIndex(c, i) ==
    IF i > Len(Alphabet) THEN 0
    ELSE IF SubSeq(Alphabet, i, i) = c THEN i
    ELSE CharIndex(c, i + 1)

\* byte-wise lexicographic comparison, as Ord for String: -1, 0 or 1
RECURSIVE StrCmp(_, _)
StrCmp(a, b) ==
    IF Len(a) = 0 /\ Len(b) = 0 THEN 0
    ELSE IF Len(a) = 0 THEN -1
    ELSE IF Len(b) = 0 THEN 1
    ELSE LET x == CharIndex(SubSeq(a, 1, 1), 1)
             y == CharIndex(SubSeq(b, 1, 1), 1)
         IN  IF x < y THEN -1
             ELSE IF x > y THEN 1
             ELSE StrCmp(SubSeq(a, 2, Len(a)), SubSeq(b, 2, Len(b)))

IntCmp(a, b) == IF a < b THEN -1 ELSE IF a > b THEN 1 ELSE 0

starts_with(s, p) == Len(s) >= Len(p) /\ SubSeq(s, 1, Len(p)) = p

Digit(d) == SubSeq("0123456789", d + 1, d + 1)

\* u64::to_string / "{}" of an unsigned integer
RECURSIVE to_string(_)
to_string(n) == IF n < 10 THEN Digit(n) ELSE to_string(n \div 10) \o Digit(n % 10)

RECURSIVE Spaces(_)
Spaces(n) == IF n <= 0 THEN "" ELSE " " \o Spaces(n - 1)

\* "{:<w}" and "{:>w}"
PadRight(s, w) == s \o Spaces(w - Len(s))
PadLeft(s, w) == Spaces(w - Len(s)) \o s

\* "%M:%S"-style two-digit field
TwoDigits(n) == Digit((n \div 10) % 10) \o Digit(n % 10)

----------------------------------------------------------------------------
(* The filesystem and the name service, as the system calls report them *)

\* fs = [n |-> number of entries, parent |-> [entry -> entry or NoPath],
\*       meta |-> [entry -> metadata]]; entry 0 is the target of the command.
\* Directory enumeration (fs::read_dir) yields the children in ascending entry order.
Nodes(f) == 0 .. (f.n - 1)

RECURSIVE SeqOfSet(_)
SeqOfSet(S) ==
    IF S = {} THEN <<>>
    ELSE LET m == CHOOSE x \in S : \A y \in S : x <= y
         IN  <<m>> \o SeqOfSet(S \ {m})

\* Where a path leads once symbolic links are followed: every live symbolic link of
\* the model points to the target directory of the command, an ancestor of the link.
Resolve(f, x) == IF f.meta[x].ftype = "symlink" /\ f.meta[x].exists THEN 0 ELSE x

\* the entries fs::read_dir(d) yields, in enumeration order (read_dir follows a
\* symbolic link to the directory it points to)
read_dir(f, d) == SeqOfSet({c \in Nodes(f) : f.parent[c] = Resolve(f, d)})

RECURSIVE NodeDepth(_, _)
NodeDepth(f, x) == IF f.parent[x] = NoPath THEN 0 ELSE 1 + NodeDepth(f, f.parent[x])

\* Path::exists: a stat that follows symbolic links
exists(f, x) == f.meta[x].exists

\* Path::is_dir: follows symbolic links; the target has been canonicalized, so it is no link
is_dir(f, x) == f.meta[x].ftype = "dir"

\* the user and group databases: uid/gid -> name; an id outside them has no entry
UserDb == [u \in {0, 1000} |-> IF u = 0 THEN "root" ELSE "tianyi"]
GroupDb == [g \in {0, 100} |-> IF g = 0 THEN "root" ELSE "users"]

----------------------------------------------------------------------------
(* MetadataExtractor: analysis_mode, get_owner_and_group_name, get_file_info *)

\* turn_permission_num_to_str with the write and execute tests exchanged
turn_permission_num_to_str_swapped(num) ==
    (IF (num \div 4) % 2 = 1 THEN "r" ELSE "-")
    \o (IF num % 2 = 1 THEN "w" ELSE "-")
    \o (IF (num \div 2) % 2 = 1 THEN "x" ELSE "-")

turn_permission_num_to_str(num) ==
    (IF (num \div 4) % 2 = 1 THEN "r" ELSE "-")
    \o (IF (num \div 2) % 2 = 1 THEN "w" ELSE "-")
    \o (IF num % 2 = 1 THEN "x" ELSE "-")

\* the (permission string, FileType) pair of a metadata record
analysis_mode(metadata) ==
    LET mode == metadata.mode
        perms_str == turn_permission_num_to_str((mode \div 64) % 8)
                     \o turn_permission_num_to_str((mode \div 8) % 8)
                     \o turn_permission_num_to_str(mode % 8)
        t == metadata.ftype
    IN  IF t = "dir" THEN <<"d" \o perms_str, "Dir">>
        ELSE IF t = "file" THEN <<"-" \o perms_str, "File">>
        ELSE IF t = "symlink" THEN <<"l" \o perms_str, "Link">>
        ELSE IF t = "char_device" THEN <<"c" \o perms_str, "CharDevice">>
        ELSE IF t = "block_device" THEN <<"b" \o perms_str, "BlockDevice">>
        ELSE IF t = "fifo" THEN <<"p" \o perms_str, "Fifo">>
        ELSE IF t = "socket" THEN <<"s" \o perms_str, "Socket">>
        ELSE <<"?" \o perms_str, "File">>

\* the (owner, group) names of a metadata record
get_owner_and_group_name(metadata, file_type) ==
    LET uid == metadata.uid
        gid == metadata.gid
        group_name ==
            IF file_type # "File" \/ file_type # "Dir" \/ file_type # "Link"
            THEN \* libc getgrgid: a null result gives the empty string
                 IF gid \in DOMAIN GroupDb THEN GroupDb[gid] ELSE ""
            ELSE \* users::get_group_by_gid
                 IF gid \in DOMAIN GroupDb THEN GroupDb[gid] ELSE "Unknown"
        owner_name == IF uid \in DOMAIN UserDb THEN UserDb[uid] ELSE "Unknown"
    IN  <<owner_name, group_name>>

\* chrono's "%Y-%m-%d %H:%M:%S" of a modification time, given as the seconds
\* past 2024-01-01 00:00:00 local time (below one hour)
format_modified(t) == "2024-01-01 00:" \o TwoDigits(t \div 60) \o ":" \o TwoDigits(t % 60)

\* get_file_info reading the metadata with fs::metadata, which follows symbolic links
get_file_info_following(f, x) ==
    LET metadata == f.meta[Resolve(f, x)]
        am == analysis_mode(metadata)
        file_name == f.meta[x].name
        og == get_owner_and_group_name(metadata, am[2])
    IN  [ permissions   |-> am[1],
          file_type     |-> am[2],
          link          |-> metadata.nlink,
          owner         |-> og[1],
          group         |-> og[2],
          size          |-> metadata.size,
          modified_time |-> format_modified(metadata.mtime),
          name          |-> file_name,
          is_hidden     |-> starts_with(file_name, ".") ]

\* the FileInfo of entry x (fs::symlink_metadata never fails on a listed entry)
get_file_info(f, x) ==
    LET metadata == f.meta[x]
        am == analysis_mode(metadata)
        file_name == metadata.name
        og == get_owner_and_group_name(metadata, am[2])
    IN  [ permissions   |-> am[1],
          file_type     |-> am[2],
          link          |-> metadata.nlink,
          owner         |-> og[1],
          group         |-> og[2],
          size          |-> metadata.size,
          modified_time |-> format_modified(metadata.mtime),
          name          |-> file_name,
          is_hidden     |-> starts_with(file_name, ".") ]

----------------------------------------------------------------------------
(* SizeFormatter *)

\* One `if size > 1024.0 { size /= 1024.0; unit = ... }` step.  The f64 is kept as
\* the exact fraction num/den (den a power of 1024: the division is exact in binary
\* floating point, and every byte count below 2^53 converts exactly).
\* SizeStep with >= in place of >
SizeStepInclusive(v, unit) ==
    IF v.num >= Kilo * v.den THEN [num |-> v.num, den |-> v.den * Kilo, unit |-> unit] ELSE v

SizeStep(v, unit) ==
    IF v.num > Kilo * v.den THEN [num |-> v.num, den |-> v.den * Kilo, unit |-> unit] ELSE v

\* "{:.2}" of the fraction num/den: the exact value rounded to hundredths, ties to even
FormatFixed2(num, den) ==
    LET scaled == num * 100
        q == scaled \div den
        r == scaled % den
        h == IF 2 * r > den THEN q + 1
             ELSE IF 2 * r = den THEN q + (q % 2)
             ELSE q
    IN  to_string(h \div 100) \o "." \o TwoDigits(h % 100)

human_readable_size(size) ==
    LET v0 == [num |-> size, den |-> 1, unit |-> "B"]
        v1 == SizeStep(v0, "K")
        v2 == SizeStep(v1, "M")
        v3 == SizeStep(v2, "G")
        v4 == SizeStep(v3, "T")
        v5 == SizeStep(v4, "P")
    IN  FormatFixed2(v5.num, v5.den) \o v5.unit

----------------------------------------------------------------------------
(* Sorter: the stable sort_by and the reverse of get_files_and_dirs *)

\* the comparator passed to sort_by for each sort key: -1, 0 or 1
Compare(key, f1, f2) ==
    IF key = "size" THEN IntCmp(f1.size, f2.size)
    ELSE IF key = "time" THEN StrCmp(f1.modified_time, f2.modified_time)
    ELSE StrCmp(f1.name, f2.name)

\* InsertStable putting x in front of the elements it compares equal to
RECURSIVE InsertBeforeEqual(_, _, _)
InsertBeforeEqual(key, s, x) ==
    IF s = <<>> THEN <<x>>
    ELSE IF Compare(key, Head(s), x) >= 0 THEN <<x>> \o s
    ELSE <<Head(s)>> \o InsertBeforeEqual(key, Tail(s), x)

\* x inserted into the sorted s behind every element that does not compare greater
RECURSIVE InsertStable(_, _, _)
InsertStable(key, s, x) ==
    IF s = <<>> THEN <<x>>
    ELSE IF Compare(key, Head(s), x) = 1 THEN <<x>> \o s
    ELSE <<Head(s)>> \o InsertStable(key, Tail(s), x)

\* Vec::sort_by: a stable sort (elements that compare equal keep their order)
RECURSIVE sort_by(_, _)
sort_by(key, s) ==
    IF s = <<>> THEN <<>>
    ELSE InsertStable(key, sort_by(key, SubSeq(s, 1, Len(s) - 1)), s[Len(s)])

\* Vec::reverse
reverse(s) == [i \in 1 .. Len(s) |-> s[Len(s) + 1 - i]]

\* the key the flags select: size first, then time, then name
SortKey(c) == IF c.sort_by_size THEN "size" ELSE IF c.sort_by_time THEN "time" ELSE "name"

\* lines 339-352: sort by the selected key, then reverse when -r is given
SortFiles(c, s) ==
    LET sorted == sort_by(SortKey(c), s)
    IN  IF c.resort THEN reverse(sorted) ELSE sorted

\* the FileInfo of every entry of a sequence of entries
RECURSIVE FileInfos(_, _)
FileInfos(f, xs) ==
    IF xs = <<>> THEN <<>> ELSE <<get_file_info(f, Head(xs))>> \o FileInfos(f, Tail(xs))

----------------------------------------------------------------------------
(* Renderer *)

color_file_names(file) ==
    IF file.file_type = "File" THEN "white"
    ELSE IF file.file_type = "Dir" THEN "cyan"
    ELSE IF file.file_type = "Link" THEN "blue"
    ELSE "green"

Line(tag, indent, text, color, node) ==
    [tag |-> tag, indent |-> indent, text |-> text, color |-> color, node |-> node]

\* the entries LsCli::files was collected from: the target itself, or its children
Listed(f, p) == IF is_dir(f, p) THEN {c \in Nodes(f) : f.parent[c] = p} ELSE {p}

\* the entry a record of LsCli::files was made from (names are unique in a directory)
NodeNamed(f, p, name) == CHOOSE x \in Listed(f, p) : f.meta[x].name = name

\* the hidden-entry filter of show_names and show_infos: TRUE when the record is skipped
Skipped(c, file) == ~c.all /\ file.is_hidden

\* print!("{:<20}", name) for every record that is not skipped, then println!()
RECURSIVE NameLines(_, _, _, _)
NameLines(c, f, p, s) ==
    IF s = <<>> THEN <<Line("newline", 0, "", "none", NoPath)>>
    ELSE (IF Skipped(c, Head(s)) THEN <<>>
          ELSE <<Line("name", 0, PadRight(Head(s).name, NameWidth),
                      color_file_names(Head(s)), NodeNamed(f, p, Head(s).name))>>)
         \o NameLines(c, f, p, Tail(s))

\* the size column of show_infos
SizeColumn(c, file) ==
    IF c.human_readable THEN human_readable_size(file.size) ELSE to_string(file.size)

\* "{} {:>3} {:>8} {:>8} {:>8} {:>20} {}"
InfoText(file, size) ==
    file.permissions \o " " \o PadLeft(to_string(file.link), 3) \o " "
    \o PadLeft(file.owner, 8) \o " " \o PadLeft(file.group, 8) \o " "
    \o PadLeft(size, 8) \o " " \o PadLeft(file.modified_time, 20) \o " " \o file.name

RECURSIVE InfoLines(_, _, _, _)
InfoLines(c, f, p, s) ==
    IF s = <<>> THEN <<>>
    ELSE (IF Skipped(c, Head(s)) THEN <<>>
          ELSE <<Line("info", 0, InfoText(Head(s), SizeColumn(c, Head(s))),
                      color_file_names(Head(s)), NodeNamed(f, p, Head(s).name))>>)
         \o InfoLines(c, f, p, Tail(s))

----------------------------------------------------------------------------
(* TreeWalker: one call of show_as_tree_recursively *)

\* the call frames of the children of a directory, in enumeration order
RECURSIVE Frames(_, _)
Frames(xs, depth) ==
    IF xs = <<>> THEN <<>> ELSE <<[node |-> Head(xs), depth |-> depth]>> \o Frames(Tail(xs), depth)

\* The call show_as_tree_recursively(fr.node, fr.depth) up to its recursive calls:
\* the lines it prints, the calls it makes, and whether it panics.  `checks` says
\* whether u8 overflow panics (debug build) or wraps (release build).
TreeCall(c, f, fr, checks) ==
    LET x == fr.node
        d == fr.depth
        mul_overflows == d * IndentStep > U8Max
        indent == (d * IndentStep) % (U8Max + 1)
        file_info == get_file_info(f, x)
        kids == read_dir(f, x)
        add_overflows == d + 1 > U8Max
        next_depth == (d + 1) % (U8Max + 1)
        entry == Line("tree", indent, "| - " \o file_info.name, color_file_names(file_info), x)
        Ret(out, calls, panic, ovf) ==
            [out |-> out, calls |-> calls, panic |-> panic, overflowed |-> ovf]
    IN  IF ~exists(f, x)
        THEN IF mul_overflows /\ checks THEN Ret(<<>>, <<>>, TRUE, TRUE)
             ELSE Ret(<<Line("missing", indent, "| - No such file or directory", "red", x)>>,
                      <<>>, FALSE, mul_overflows)
        ELSE IF d > c.depth THEN Ret(<<>>, <<>>, FALSE, FALSE)
        ELSE IF mul_overflows /\ checks THEN Ret(<<>>, <<>>, TRUE, TRUE)
        ELSE IF file_info.file_type # "Dir" THEN Ret(<<entry>>, <<>>, FALSE, mul_overflows)
        ELSE IF ~f.meta[Resolve(f, x)].readable
        THEN Ret(<<entry, Line("denied", indent, "| - Permission denied", "red", x)>>,
                 <<>>, FALSE, mul_overflows)
        ELSE IF kids # <<>> /\ add_overflows /\ checks THEN Ret(<<entry>>, <<>>, TRUE, TRUE)
        ELSE Ret(<<entry>>, Frames(kids, next_depth), FALSE,
                 mul_overflows \/ (kids # <<>> /\ add_overflows))

----------------------------------------------------------------------------
(* LsCli::execute, step by step *)

\* a |= b for a single bit b
BitOr(a, b) == IF (a \div b) % 2 = 1 THEN a ELSE a + b

\* the status set_status computes from the flags
StatusOf(c) ==
    LET s0 == 0
        s1 == IF c.long THEN BitOr(s0, 1) ELSE s0
        s2 == IF c.all THEN BitOr(s1, 2) ELSE s1
        s3 == IF c.human_readable THEN BitOr(s2, 4) ELSE s2
    IN  IF c.tree THEN BitOr(s3, 8) ELSE s3

\* the match of execute with every tree status sent to the tree
RenderModeAnyTree(st) ==
    IF st \in {0, 2, 4} THEN "names"
    ELSE IF st \in {1, 3, 5, 7} THEN "infos"
    ELSE IF st >= 8 THEN "tree"
    ELSE "names"

\* the match of execute on get_status()
RenderMode(st) ==
    IF st \in {0, 2, 4} THEN "names"
    ELSE IF st \in {1, 3, 5, 7} THEN "infos"
    ELSE IF st = 8 THEN "tree"
    ELSE "names"

\* self.path.canonicalize().unwrap(): panics when the target does not exist
Canonicalize ==
    /\ pc = "start"
    /\ pc' = IF path = NoPath THEN "panicked" ELSE "set_status"
    /\ UNCHANGED <<cli, path, fs, build, status, files, stack, output>>

set_status ==
    /\ pc = "set_status"
    /\ status' = StatusOf(cli)
    /\ pc' = "get_files"
    /\ UNCHANGED <<cli, path, fs, build, files, stack, output>>

\* get_files_and_dirs printing each name as it collects it (as the first version of
\* the program, src/src/main.rs, prints from inside its collecting function)
get_files_and_dirs_printing ==
    /\ pc = "get_files"
    /\ IF ~is_dir(fs, path)
       THEN /\ files' = Append(files, get_file_info(fs, path))
            /\ pc' = "dispatch"
       ELSE IF ~fs.meta[path].readable
       THEN /\ files' = files
            /\ pc' = "panicked"
       ELSE /\ files' = SortFiles(cli, files \o FileInfos(fs, read_dir(fs, path)))
            /\ pc' = "dispatch"
    /\ output' = IF is_dir(fs, path) /\ ~fs.meta[path].readable THEN output
                 ELSE output \o NameLines(cli, fs, path, files')
    /\ UNCHANGED <<cli, path, fs, build, status, stack>>

\* collect the records of the target: the target itself when it is no directory,
\* else its entries, sorted and reversed as the flags say; an unreadable target panics
get_files_and_dirs ==
    /\ pc = "get_files"
    /\ IF ~is_dir(fs, path)
       THEN /\ files' = Append(files, get_file_info(fs, path))
            /\ pc' = "dispatch"
       ELSE IF ~fs.meta[path].readable
       THEN /\ files' = files
            /\ pc' = "panicked"
       ELSE /\ files' = SortFiles(cli, files \o FileInfos(fs, read_dir(fs, path)))
            /\ pc' = "dispatch"
    /\ UNCHANGED <<cli, path, fs, build, status, stack, output>>

show_names ==
    /\ pc = "dispatch"
    /\ RenderMode(status) = "names"
    /\ output' = output \o NameLines(cli, fs, path, files)
    /\ pc' = "done"
    /\ UNCHANGED <<cli, path, fs, build, status, files, stack>>

show_infos ==
    /\ pc = "dispatch"
    /\ RenderMode(status) = "infos"
    /\ output' = output \o InfoLines(cli, fs, path, files)
    /\ pc' = "done"
    /\ UNCHANGED <<cli, path, fs, build, status, files, stack>>

show_as_tree ==
    /\ pc = "dispatch"
    /\ RenderMode(status) = "tree"
    /\ stack' = <<[node |-> path, depth |-> 0]>>
    /\ pc' = "tree"
    /\ UNCHANGED <<cli, path, fs, build, status, files, output>>

\* the next pending call of show_as_tree_recursively runs up to its recursive calls,
\* which become the next pending calls, in order
show_as_tree_recursively ==
    /\ pc = "tree"
    /\ stack # <<>>
    /\ \E checks \in BOOLEAN :
         LET r == TreeCall(cli, fs, Head(stack), checks)
         IN  /\ r.overflowed => build \in {"unobserved", IF checks THEN "debug" ELSE "release"}
             /\ build' = IF r.overflowed THEN (IF checks THEN "debug" ELSE "release") ELSE build
             /\ output' = output \o r.out
             /\ stack' = IF r.panic THEN stack ELSE r.calls \o Tail(stack)
             /\ pc' = IF r.panic THEN "panicked"
                      ELSE IF r.calls \o Tail(stack) = <<>> THEN "done"
                      ELSE "tree"
    /\ UNCHANGED <<cli, path, fs, status, files>>

----------------------------------------------------------------------------
(* The command lines and filesystems the model runs on *)

\* the default of --depth
DefaultDepth == 10

Cli(l, a, h, t, ss, st, r, d) ==
    [long |-> l, all |-> a, human_readable |-> h, tree |-> t,
     sort_by_size |-> ss, sort_by_time |-> st, resort |-> r, depth |-> d]

\* st_mode: the file-type bits of each kind of entry
TypeBits(ftype) ==
    CASE ftype = "dir" -> 16384
      [] ftype = "file" -> 32768
      [] ftype = "symlink" -> 40960
      [] ftype = "char_device" -> 8192
      [] ftype = "block_device" -> 24576
      [] ftype = "fifo" -> 4096
      [] ftype = "socket" -> 49152
      [] OTHER -> 0

FTypes == {"dir", "file", "symlink", "char_device", "block_device", "fifo", "socket", "unknown"}

Meta(name, ftype, perm, size, mtime, uid, gid, ex, rd) ==
    [name |-> name, ftype |-> ftype, mode |-> TypeBits(ftype) + perm, nlink |-> 1,
     uid |-> uid, gid |-> gid, size |-> size, mtime |-> mtime, exists |-> ex, readable |-> rd]

\* the kinds of entry of the small filesystems
Classes == {"dir", "nodir", "file", "hidden", "broken", "link"}
DirClasses == {"dir", "nodir"}

ClassMeta(class, letter) ==
    CASE class = "dir"    -> Meta(letter, "dir", 493, 4096, 0, 1000, 100, TRUE, TRUE)
      [] class = "nodir"  -> Meta(letter, "dir", 448, 4096, 0, 0, 0, TRUE, FALSE)
      [] class = "file"   -> Meta(letter, "file", 420, 500, 0, 1000, 100, TRUE, TRUE)
      [] class = "hidden" -> Meta("." \o letter, "file", 420, 10, 0, 1000, 100, TRUE, TRUE)
      [] class = "broken" -> Meta(letter, "symlink", 511, 7, 0, 1000, 100, FALSE, FALSE)
      [] class = "link"   -> Meta(letter, "symlink", 511, 2, 0, 1000, 100, TRUE, FALSE)

\* entry i is named by the i-th letter; enumeration order is not name order
Letter(i) == SubSeq("tbacdeghik", i + 1, i + 1)

\* the filesystem with target class rc and n entries below it
MkFS(rc, n, parents, classes) ==
    [n |-> n + 1,
     parent |-> [i \in 0 .. n |-> IF i = 0 THEN NoPath ELSE parents[i]],
     meta |-> [i \in 0 .. n |-> ClassMeta(IF i = 0 THEN rc ELSE classes[i], Letter(i))]]

SmallFSs ==
    { MkFS(rc, 0, <<>>, <<>>) : rc \in {"nodir", "file"} }
    \cup UNION { { MkFS("dir", n, ps, cs) :
                     <<ps, cs>> \in { pc2 \in [1 .. n -> 0 .. n - 1] \X [1 .. n -> Classes] :
                                        \A i \in 1 .. n :
                                          /\ pc2[1][i] < i
                                          /\ pc2[1][i] # 0 => pc2[2][pc2[1][i]] \in DirClasses } }
                 : n \in 0 .. MaxNodes }

\* a chain of nested directories, entry i inside entry i - 1
ChainFS(n) ==
    [n |-> n,
     parent |-> [i \in 0 .. n - 1 |-> i - 1],
     meta |-> [i \in 0 .. n - 1 |-> ClassMeta("dir", "d")]]

NoFS == [n |-> 0, parent |-> <<>>, meta |-> <<>>]

\* all sixteen flag combinations with the default sort and depth, and the plain
\* tree command with every sort flag and the depths 0, 1 and the default
CliSet ==
    { Cli(l, a, h, t, FALSE, FALSE, FALSE, DefaultDepth) :
        l \in BOOLEAN, a \in BOOLEAN, h \in BOOLEAN, t \in BOOLEAN }
    \cup { Cli(FALSE, FALSE, FALSE, TRUE, s[1], s[2], s[3], d) :
             s \in BOOLEAN \X BOOLEAN \X BOOLEAN,
             d \in {0, 1, DefaultDepth} }

Start ==
    /\ build = "unobserved"
    /\ status = 0
    /\ files = <<>>
    /\ pc = "start"
    /\ stack = <<>>
    /\ output = <<>>

Init ==
    /\ Start
    /\ \/ /\ cli \in CliSet
          /\ \/ path = 0 /\ fs \in SmallFSs
             \/ path = NoPath /\ fs = NoFS
       \/ /\ cli = Cli(FALSE, FALSE, FALSE, TRUE, FALSE, FALSE, FALSE, U8Max)
          /\ path = 0
          /\ fs = ChainFS(MaxChain)

Next ==
    \/ Canonicalize
    \/ set_status
    \/ get_files_and_dirs
    \/ show_names
    \/ show_infos
    \/ show_as_tree
    \/ show_as_tree_recursively

Spec == Init /\ [][Next]_vars


----------------------------------------------------------------------------
(* Flat listings of one directory: the inputs of the Sorter *)

\* the sizes and modification times an entry of a sorted directory may have:
\* enough for ties in either key, and for times whose order shows in different digits
SortAttrs == {<<10, 59>>, <<10, 60>>, <<500, 59>>}

\* a directory of n regular files; entry i is named by the names[i]-th letter
SortFS(n, names, attrs) ==
    [n |-> n + 1,
     parent |-> [i \in 0 .. n |-> IF i = 0 THEN NoPath ELSE 0],
     meta |-> [i \in 0 .. n |->
                 IF i = 0 THEN ClassMeta("dir", "t")
                 ELSE Meta(SubSeq("abcdeghik", names[i], names[i]), "file", 420,
                           attrs[i][1], attrs[i][2], 1000, 100, TRUE, TRUE)]]

SortFSs ==
    UNION { { SortFS(n, names, attrs) :
                names \in { p \in [1 .. n -> 1 .. n] : \A i, j \in 1 .. n : p[i] = p[j] => i = j },
                attrs \in [1 .. n -> SortAttrs] }
            : n \in 0 .. MaxFiles }

InitSort ==
    /\ Start
    /\ path = 0
    /\ fs \in SortFSs
    /\ cli \in { Cli(l, FALSE, FALSE, FALSE, ss, st, r, DefaultDepth) :
                   l \in BOOLEAN, ss \in BOOLEAN, st \in BOOLEAN, r \in BOOLEAN }

NextFlat ==
    \/ Canonicalize
    \/ set_status
    \/ get_files_and_dirs
    \/ show_names
    \/ show_infos

SpecSort == InitSort /\ [][NextFlat]_vars

----------------------------------------------------------------------------
(* Detailed listings of one entry: the inputs of the MetadataExtractor and
   of the SizeFormatter *)

\* permission bits with and without the set-uid bit
PermSet == (0 .. 511) \cup {2048 + 493}

\* byte counts around the unit boundaries
SizeSet == {0, 1, 10, 500, 1023, 1024, 1025, 1152, 1536, 10240, 1048575, 1048576,
            1048577, 1572864, 10485760}

\* ids with and without an entry in the user and group databases
IdSet == {0, 1000, 4242}

InfoMetas ==
    { Meta("a", "file", p, 500, 0, 1000, 100, TRUE, TRUE) : p \in PermSet }
    \cup { Meta("a", t, p, 500, 0, 1000, 100, TRUE, TRUE) : t \in FTypes, p \in {0, 420, 493} }
    \cup { Meta("a", t, 420, 500, 0, u, g, TRUE, TRUE) : t \in FTypes, u \in IdSet, g \in IdSet }
    \cup { Meta("a", "file", 420, sz, 0, 1000, 100, TRUE, TRUE) : sz \in SizeSet }

\* a directory holding the single entry m
InfoFS(m) ==
    [n |-> 2,
     parent |-> [i \in 0 .. 1 |-> IF i = 0 THEN NoPath ELSE 0],
     meta |-> [i \in 0 .. 1 |-> IF i = 0 THEN ClassMeta("dir", "t") ELSE m]]

InitInfo ==
    /\ Start
    /\ path = 0
    /\ fs \in { InfoFS(m) : m \in InfoMetas }
    /\ cli \in { Cli(l, FALSE, h, FALSE, FALSE, FALSE, FALSE, DefaultDepth) :
                   l \in BOOLEAN, h \in BOOLEAN }

SpecInfo == InitInfo /\ [][NextFlat]_vars

\* the tree command with the largest max_depth on the small filesystems, symbolic
\* links to the target directory among them
InitWalk ==
    /\ Start
    /\ path = 0
    /\ fs \in SmallFSs
    /\ cli = Cli(FALSE, FALSE, FALSE, TRUE, FALSE, FALSE, FALSE, U8Max)

NextWalk ==
    \/ Canonicalize
    \/ set_status
    \/ get_files_and_dirs
    \/ show_as_tree
    \/ show_as_tree_recursively

\* show_as_tree runs its recursion on one thread and waits for nothing: while a
\* call of the walk is pending, one is made
SpecWalk == InitWalk /\ [][NextWalk]_vars /\ WF_vars(show_as_tree_recursively)

----------------------------------------------------------------------------
(* Properties *)

Range(s) == {s[i] : i \in 1 .. Len(s)}

\* the record set is complete: get_files_and_dirs has returned
Collected == pc \in {"dispatch", "tree", "done"}

\* the record of LsCli::files made from entry x
FileOf(x) == CHOOSE r \in Range(files) : r.name = fs.meta[x].name

\* the detailed table has been printed with human-readable sizes
HumanTable == pc = "done" /\ RenderMode(status) = "infos" /\ cli.human_readable

\* every printed row of an entry whose size is in `table` shows the size as `table` gives it
SizesShownAs(table) ==
    \A i \in 1 .. Len(output) :
        LET x == output[i].node
        IN  fs.meta[x].size \in DOMAIN table
            => output[i].text = InfoText(FileOf(x), table[fs.meta[x].size])

\* the boundary renderings as the specification lists them
ListedSizes ==
    [sz \in {0, 1024, 1025, 1048576} |->
        IF sz = 0 THEN "0.00B"
        ELSE IF sz = 1024 THEN "1024.00B"
        ELSE IF sz = 1025 THEN "1.00K"
        ELSE "1.00M"]

\* the boundary renderings with 1048576 in unit K
BoundarySizes == [ListedSizes EXCEPT ![1048576] = "1024.00K"]

\* C1 as stated: human_readable_size renders 0 as "0.00B", 1024 as "1024.00B",
\* 1025 as "1.00K" and 1048576 as "1.00M".
C1_AsStated == HumanTable => SizesShownAs(ListedSizes)

\* C1 amended: human_readable_size renders 0 as "0.00B", 1024 as "1024.00B",
\* 1025 as "1.00K" and 1048576 as "1024.00K": 1048576 bytes are exactly 1024 K,
\* and a value of exactly 1024 is not promoted to the next unit.
C1_Boundaries == HumanTable => SizesShownAs(BoundarySizes)

C1_Witness ==
    /\ HumanTable
    /\ Len(output) = 1
    /\ fs.meta[output[1].node].size = 1048576
    /\ output[1].text = InfoText(files[1], "1024.00K")

\* the truth table of a permission triad: r for 4, w for 2, x for 1
TriadTable == <<"---", "--x", "-w-", "-wx", "r--", "r-x", "rw-", "rwx">>

\* C8: the permission string of every record is 10 characters: one kind glyph, then
\* the triads of (mode>>6)&7, (mode>>3)&7 and mode&7 in owner, group, other order,
\* each triad being the truth table's string for its 3-bit value.
C8_PermissionString ==
    Collected =>
        \A r \in Range(files) :
            LET mode == fs.meta[NodeNamed(fs, path, r.name)].mode
                p == r.permissions
            IN  /\ Len(p) = 10
                /\ SubSeq(p, 1, 1) \in {"d", "-", "l", "c", "b", "p", "s", "?"}
                /\ SubSeq(p, 2, 4) = TriadTable[((mode \div 64) % 8) + 1]
                /\ SubSeq(p, 5, 7) = TriadTable[((mode \div 8) % 8) + 1]
                /\ SubSeq(p, 8, 10) = TriadTable[(mode % 8) + 1]

C8_Witness ==
    /\ Collected
    /\ Len(files) = 1
    /\ fs.meta[1].mode % 512 = 429
    /\ files[1].permissions = "-rw-r-xr-x"

\* C5: when the group lookup fails the group name is "Unknown" for File, Dir and Link
\* and empty for the device, fifo and socket kinds; when the owner lookup fails the
\* owner name is "Unknown" for every kind.
C5_FallbackNames ==
    Collected =>
        \A r \in Range(files) :
            LET m == fs.meta[NodeNamed(fs, path, r.name)]
            IN  /\ m.gid \notin DOMAIN GroupDb =>
                     r.group = IF r.file_type \in {"File", "Dir", "Link"} THEN "Unknown" ELSE ""
                /\ m.uid \notin DOMAIN UserDb => r.owner = "Unknown"

\* the records of the target directory in enumeration order
Enumerated == FileInfos(fs, read_dir(fs, path))

\* the place of the record named `name` in the sequence of records e
PosIn(e, name) == CHOOSE i \in 1 .. Len(e) : e[i].name = name

\* the selected key of entry metadata x is at most that of y: sizes as numbers,
\* modification times as times, names as byte strings
KeyLeq(x, y) ==
    IF cli.sort_by_size THEN x.size <= y.size
    ELSE IF cli.sort_by_time THEN x.mtime <= y.mtime
    ELSE StrCmp(x.name, y.name) <= 0

\* s holds the enumerated records, each once, in ascending key order, records of
\* equal key in enumeration order
StablySorted(s) ==
    LET e == Enumerated
        at == [i \in 1 .. Len(s) |-> PosIn(e, s[i].name)]
        m == [i \in 1 .. Len(s) |-> fs.meta[NodeNamed(fs, path, s[i].name)]]
    IN  /\ Len(s) = Len(e)
        /\ \A i \in 1 .. Len(s) : s[i] = e[at[i]]
        /\ \A i, j \in 1 .. Len(s) :
             i < j => /\ at[i] # at[j]
                      /\ KeyLeq(m[i], m[j])
                      /\ KeyLeq(m[j], m[i]) => at[i] < at[j]

\* C4: for a directory target the records are the enumerated records stably sorted
\* by the selected key (size, else time, else name); with reverse on they are the
\* element-wise reversal of that stably sorted sequence; in both cases a permutation
\* of the enumerated records.
C4_StableSortThenReverse ==
    (Collected /\ is_dir(fs, path)) =>
        IF cli.resort THEN StablySorted(reverse(files)) ELSE StablySorted(files)

\* a reversed listing with a tie: two records of equal size, the later enumerated first
C4_Witness ==
    /\ Collected
    /\ cli.sort_by_size /\ cli.resort
    /\ Len(files) = 3
    /\ files[1].size = files[2].size
    /\ files[3].size < files[2].size
    /\ PosIn(Enumerated, files[1].name) > PosIn(Enumerated, files[2].name)

----------------------------------------------------------------------------
(* Properties of whole runs *)

EntryTags == {"name", "info", "tree"}
TreeTags == {"tree", "missing", "denied"}

Hidden(x) == starts_with(fs.meta[x].name, ".")

\* C2: in every render mode an entry whose name starts with '.' is never emitted
\* when the show-hidden flag is off, and an entry whose name does not start with
\* '.' is never dropped by the filter.
C2_HiddenFilter ==
    /\ \A i \in 1 .. Len(output) :
         (output[i].tag \in EntryTags /\ Hidden(output[i].node)) => cli.all
    /\ (pc = "done" /\ RenderMode(status) # "tree") =>
         \A x \in Listed(fs, path) :
             ~Hidden(x) => \E i \in 1 .. Len(output) : output[i].node = x

\* C3: in a tree walk with maximum depth D no line of any kind is emitted for an
\* entry at depth greater than D.
C3_DepthBound ==
    \A i \in 1 .. Len(output) :
        output[i].tag \in TreeTags => NodeDepth(fs, output[i].node) <= cli.depth

\* C6: when a directory at depth d cannot be enumerated the walk prints exactly one
\* "Permission denied" line, at the indent of depth d + 1, prints nothing for the
\* entries below that directory, and goes on to finish with every sibling printed.
C6_DeniedPlaceholder ==
    \A i \in 1 .. Len(output) :
        output[i].tag = "denied" =>
            LET x == output[i].node
            IN  /\ output[i].indent = IndentStep * (NodeDepth(fs, x) + 1)
                /\ \A j \in 1 .. Len(output) :
                     /\ (output[j].tag = "denied" /\ output[j].node = x) => j = i
                     /\ output[j].tag \in TreeTags => fs.parent[output[j].node] # x
                /\ pc # "panicked"
                /\ pc = "done" =>
                     \A y \in Nodes(fs) :
                         fs.parent[y] = fs.parent[x] =>
                             \E j \in 1 .. Len(output) : output[j].node = y

\* the flat listing is the selected render mode
Flat == RenderMode(StatusOf(cli)) # "tree"

\* what get_files_and_dirs leaves in LsCli::files when it returns
RecordSet ==
    IF is_dir(fs, path) THEN SortFiles(cli, Enumerated) ELSE <<get_file_info(fs, path)>>

\* C7: nothing is printed while the records are being collected; in flat-listing
\* mode every printed line is printed after the whole record set has been collected,
\* sorted and reversed, and a run that ends in a fatal error has printed nothing.
C7_CollectBeforeOutput ==
    /\ pc \in {"start", "set_status", "get_files"} => output = <<>>
    /\ Flat =>
         /\ output # <<>> => (pc = "done" /\ files = RecordSet)
         /\ pc = "panicked" => output = <<>>

\* the target directory cannot be read: the run has ended without a line
C7_Witness ==
    /\ Flat
    /\ pc = "panicked"
    /\ path # NoPath
    /\ ~fs.meta[path].readable
    /\ output = <<>>

\* C9: every line of the tree walk for an entry at depth d <= D is indented by
\* exactly 5*d spaces, and no 8-bit computation of the walk overflows.
C9_IndentExact ==
    /\ build = "unobserved"
    /\ \A i \in 1 .. Len(output) :
         (output[i].tag = "tree" /\ NodeDepth(fs, output[i].node) <= cli.depth)
             => output[i].indent = IndentStep * NodeDepth(fs, output[i].node)

\* the status and the render mode as the table of the claim gives them
ListedStatus ==
    (IF cli.long THEN 1 ELSE 0) + (IF cli.all THEN 2 ELSE 0)
    + (IF cli.human_readable THEN 4 ELSE 0) + (IF cli.tree THEN 8 ELSE 0)

ListedMode ==
    IF ListedStatus \in {0, 2, 4} THEN "names"
    ELSE IF ListedStatus \in {1, 3, 5, 7} THEN "infos"
    ELSE IF ListedStatus = 8 THEN "tree"
    ELSE "names"

\* the render mode the printed text shows
Rendered ==
    IF \A i \in 1 .. Len(output) : output[i].tag = "info" THEN "infos"
    ELSE IF \A i \in 1 .. Len(output) : output[i].tag \in TreeTags THEN "tree"
    ELSE IF /\ output[Len(output)].tag = "newline"
            /\ \A i \in 1 .. Len(output) - 1 : output[i].tag = "name"
    THEN "names"
    ELSE "mixed"

----------------------------------------------------------------------------
(* Properties of the tree walk *)

\* the entries of the entry lines printed by the tree walk, in the order printed
\* the entry lines of the tree, in the order printed
IsEntryLine(l) == l.tag = "tree"
EntryLines == SelectSeq(output, IsEntryLine)

\* For the entries lo .. hi, appended to tab in this order: the set holding the
\* entry and every directory above it, up to the target. An entry is numbered
\* after its directory, so the set of the directory is in tab already; the range
\* is halved so that the nesting of the evaluation stays logarithmic.
RECURSIVE PathsUpTo(_, _, _)
PathsUpTo(tab, lo, hi) ==
    IF lo > hi THEN tab
    ELSE IF lo = hi
    THEN Append(tab, IF fs.parent[lo] = NoPath THEN {lo}
                     ELSE {lo} \cup tab[fs.parent[lo] + 1])
    ELSE LET mid == (lo + hi) \div 2
         IN  CHOOSE r \in { PathsUpTo(t, mid + 1, hi) : t \in {PathsUpTo(tab, lo, mid)} } : TRUE

\* Paths[x + 1] is entry x together with every directory above it
Paths == PathsUpTo(<<>>, 0, fs.n - 1)

\* The entries the walk is to print: those that exist, lie at depth <= max_depth
\* and have only readable directories above them.
Visible(up) ==
    { x \in Nodes(fs) :
        /\ Cardinality(up[x + 1]) - 1 <= cli.depth
        /\ \A a \in up[x + 1] :
             /\ fs.meta[a].exists
             /\ a # x => fs.meta[a].ftype = "dir" /\ fs.meta[a].readable }

\* the place of entry c among the entries of its directory, in enumeration order
PlaceOf(c) ==
    LET e == read_dir(fs, fs.parent[c])
    IN  CHOOSE i \in 1 .. Len(e) : e[i] = c

\* a comes before b in the pre-order of the tree: a is a directory above b, or, where
\* their paths part, the child leading to a is enumerated before the one leading to b
Before(up, a, b) ==
    LET ua == up[a + 1]
        ub == up[b + 1]
    IN  /\ a # b
        /\ \/ a \in ub
           \/ /\ b \notin ua
              /\ LET ca == CHOOSE c \in ua \ ub : fs.parent[c] \in ub
                     cb == CHOOSE c \in ub \ ua : fs.parent[c] \in ua
                 IN  PlaceOf(ca) < PlaceOf(cb)

\* the tree walk has begun
Walking == RenderMode(status) = "tree" /\ pc \in {"tree", "done", "panicked"} /\ output # <<>>

\* the tree walk has ended, by returning or by a panic inside it
WalkOver == Walking /\ (pc = "done" \/ (pc = "panicked" /\ build = "debug"))

\* C11: the entry lines of the tree walk are, in order, the pre-order of the tree
\* in directory-enumeration order: a directory before its descendants, the whole
\* subtree of a child before the next child, each existing entry at depth <=
\* max_depth below readable directories exactly once, whatever the sort and
\* reverse flags.
C11_PreorderOnce ==
    Walking =>
        \E up \in {Paths} :
            LET got == EntryLines
                n == Len(got)
                vis == Visible(up)
            IN  /\ \A i \in 1 .. n : got[i].node \in vis
                /\ \A i \in 1 .. n - 1 : Before(up, got[i].node, got[i + 1].node)
                /\ \A v \in vis :
                     \/ \E i \in 1 .. n : got[i].node = v
                     \/ ~WalkOver /\ n > 0 /\ Before(up, got[n].node, v)

\* every pending call is on a child of a real (link-aware) directory that the walk
\* has printed, and every symbolic link printed is classified Link
DescendsRealDirsOnly ==
    /\ \A i \in 1 .. Len(stack) :
         LET x == stack[i].node
         IN  x # path =>
               /\ fs.meta[fs.parent[x]].ftype = "dir"
               /\ \E j \in 1 .. Len(output) :
                    output[j].tag = "tree" /\ output[j].node = fs.parent[x]
    /\ \A j \in 1 .. Len(output) :
         (output[j].tag = "tree" /\ fs.meta[output[j].node].ftype = "symlink")
             => output[j].color = "blue"

\* a call of the walk ends the run or replaces itself by calls on children of its
\* own entry, a real directory, each one level deeper in the filesystem: the
\* pending calls shrink in the multiset order of the finite directory tree
WalkShrinks ==
    pc = "tree" =>
        \/ pc' = "panicked"
        \/ LET called == Head(stack).node
               k == Len(stack') - Len(Tail(stack))
           IN  /\ k >= 0
               /\ SubSeq(stack', k + 1, Len(stack')) = Tail(stack)
               /\ \A i \in 1 .. k :
                    /\ fs.meta[called].ftype = "dir"
                    /\ fs.parent[stack'[i].node] = called
                    /\ NodeDepth(fs, stack'[i].node) = NodeDepth(fs, called) + 1

Ended == pc \in {"done", "panicked"}

\* C12: the tree walk always terminates on a finite filesystem, also with the
\* largest max_depth and with symbolic links to an ancestor directory: a call
\* descends only into an entry whose link-aware kind is Dir, a symbolic link is
\* classified Link and never followed, and every recursive call is on a strictly
\* deeper child of a real directory.
C12_WalkTerminates ==
    /\ []DescendsRealDirsOnly
    /\ [][WalkShrinks]_vars
    /\ (pc = "tree") ~> Ended

\* a finished walk with the largest max_depth that printed a live symbolic link
\* to an ancestor directory as a Link and went on to the entry behind it
C12_Witness ==
    /\ pc = "done"
    /\ RenderMode(status) = "tree"
    /\ cli.depth = U8Max
    /\ Len(output) = 3
    /\ fs.meta[output[2].node].ftype = "symlink"
    /\ Resolve(fs, output[2].node) = path
    /\ output[2].color = "blue"
    /\ output[3].tag = "tree"


====
